---- MODULE Spec2Model ----
(***************************************************************************)
(* Model of src/utils/OptionUtils.js (grunt-mutation-testing): resolution  *)
(* of the options of a mutationTest task.                                  *)
(*                                                                         *)
(* JavaScript values are tagged records: [t |-> kind, v |-> payload].      *)
(* A JavaScript string is modelled as the sequence of its "/"-separated    *)
(* segments ("a/x.js" is <<"a", "x.js">>, "INFO" is <<"INFO">>, the empty  *)
(* string is << >>), so that path.join and glob matching can be computed.  *)
(* An object is a function from property names to values; a property is an *)
(* own property exactly when its name is in the DOMAIN.                    *)
(***************************************************************************)
EXTENDS Integers, Sequences, FiniteSets, TLC

VARIABLES
    fs,               \* the regular files on disk (a set of paths)
    gruntConfig,      \* grunt's configuration of the task: options + targets
    DEFAULT_OPTIONS,  \* the module-level DEFAULT_OPTIONS object
    globalLogLevel,   \* log4js' process-wide minimum level
    logConfig,        \* log4js' appender configuration
    task,             \* target of the most recent getOptions call
    merged,           \* opts right after the _.merge of line 112
    opts,             \* opts when areRequiredOptionsSet is called (line 126)
    result,           \* what the most recent getOptions call returned
    warnings,         \* the grunt.warn messages of the most recent call
    calls,            \* the logged getOptions calls: target and value returned
    files,            \* argument of the most recent direct expandFiles call
    basePath,         \* argument of the most recent direct expandFiles call
    expandedFiles     \* what the most recent direct expandFiles call returned

vars == <<fs, gruntConfig, DEFAULT_OPTIONS, globalLogLevel, logConfig, task,
          merged, opts, result, warnings, calls, files, basePath,
          expandedFiles>>

-----------------------------------------------------------------------------
(* JavaScript values *)

Undefined == [t |-> "undefined"]
Null == [t |-> "null"]
Str(segments) == [t |-> "string", v |-> segments]
Arr(elements) == [t |-> "array", v |-> elements]
Obj(properties) == [t |-> "object", v |-> properties]
Bool(b) == [t |-> "boolean", v |-> b]
Num(n) == [t |-> "number", v |-> n]
Fn(name) == [t |-> "function", v |-> name]
RegExp(source) == [t |-> "regexp", v |-> source]

EmptyObject == << >>

\* o[k], undefined when o has no property k
Get(o, k) == IF k \in DOMAIN o THEN o[k] ELSE Undefined

\* o with property k set to val (o.k = val)
Put(o, k, val) == [x \in DOMAIN o \cup {k} |-> IF x = k THEN val ELSE o[x]]

\* JavaScript truthiness, as used by `files ? ..`, `opts.karma`, `opts.ignore`
Truthy(val) ==
    CASE val.t = "undefined" -> FALSE
      [] val.t = "null" -> FALSE
      [] val.t = "boolean" -> val.v
      [] val.t = "number" -> val.v # 0
      [] val.t = "string" -> val.v # << >>
      [] OTHER -> TRUE

IsArray(val) == val.t = "array"

IsPlainObject(val) == val.t = "object"

MaxOf(a, b) == IF a >= b THEN a ELSE b

-----------------------------------------------------------------------------
(* Module-level constants of OptionUtils.js *)

DefaultOptionsLiteral ==
    [before |-> Fn("CALL_DONE"),
     beforeEach |-> Fn("CALL_DONE"),
     test |-> Fn("CALL_DONE"),
     afterEach |-> Fn("CALL_DONE"),
     after |-> Fn("CALL_DONE"),
     basePath |-> Str(<<".">>),
     testFramework |-> Str(<<"karma">>),
     logLevel |-> Str(<<"INFO">>),
     maxReportedMutationLength |-> Num(80),
     mutateProductionCode |-> Bool(FALSE)]

DEFAULT_REPORTER == Obj([console |-> Bool(TRUE)])

LOG_OPTIONS == "console appender, pattern layout"

DEFAULT_IGNORE == RegExp("('use strict'|\"use strict\");")

-----------------------------------------------------------------------------
(* lodash: _.merge and _.union *)

RECURSIVE mergeValue(_, _)
\* The value _.merge leaves in a property holding objValue when the source
\* holds srcValue there: arrays and plain objects are merged recursively
\* (arrays index by index), every other value replaces the old one.
mergeValue(objValue, srcValue) ==
    IF IsArray(srcValue)
    THEN LET old == IF IsArray(objValue) THEN objValue.v ELSE << >>
             new == srcValue.v
         IN  Arr([i \in 1..MaxOf(Len(old), Len(new)) |->
                    IF i > Len(new) THEN old[i]
                    ELSE mergeValue(IF i <= Len(old) THEN old[i] ELSE Undefined,
                                    new[i])])
    ELSE IF IsPlainObject(srcValue)
    THEN LET old == IF IsPlainObject(objValue) THEN objValue.v ELSE EmptyObject
             new == srcValue.v
         IN  Obj([k \in DOMAIN old \cup DOMAIN new |->
                    IF k \notin DOMAIN new THEN old[k]
                    ELSE mergeValue(Get(old, k), new[k])])
    ELSE srcValue

\* _.merge(object, source) on two property maps
merge(object, source) == mergeValue(Obj(object), Obj(source)).v

RECURSIVE uniq(_)
\* the elements of a sequence, each kept at its first occurrence only
uniq(s) ==
    IF s = << >> THEN << >>
    ELSE LET front == uniq(SubSeq(s, 1, Len(s) - 1))
             last == s[Len(s)]
         IN  IF \E i \in 1..Len(front) : front[i] = last
             THEN front
             ELSE Append(front, last)

\* A variant of _.union that concatenates without removing duplicates
unionKeepingDuplicates(a, b) == a \o b

\* _.union(a, b): the unique values of a and b, in order of first occurrence
union(a, b) == uniq(a \o b)

-----------------------------------------------------------------------------
(* node's path.join and glob.sync *)

RECURSIVE normalize(_)
\* path.normalize on segments: "." is dropped, ".." removes the segment
\* before it (or stays, when there is none to remove)
normalize(segments) ==
    IF segments = << >> THEN << >>
    ELSE LET front == normalize(SubSeq(segments, 1, Len(segments) - 1))
             last == segments[Len(segments)]
         IN  IF last = "." THEN front
             ELSE IF last = ".." /\ front # << >> /\ front[Len(front)] # ".."
             THEN SubSeq(front, 1, Len(front) - 1)
             ELSE Append(front, last)

\* path.join(a, b): the two joined by "/" and normalized; "." when empty
pathJoin(a, b) ==
    LET joined == normalize(a.v \o b.v)
    IN  Str(IF joined = << >> THEN <<".">> ELSE joined)

\* Every path a file can have in the model, in the order glob.sync sorts
\* its matches (alphabetically)
SortedPaths ==
    << <<"a", ".h.js">>, <<"a", "x.js">>, <<"a", "y.js">>,
       <<"fx", "a", "x.js">>, <<"fx", "t", "s.js">>, <<"t", "s.js">> >>

AllPaths == {SortedPaths[i] : i \in 1..Len(SortedPaths)}

\* Whether the path matches the pattern: segment by segment, where the
\* segment "*" matches any one segment (dot: true lets it match dotfiles)
matches(pattern, path) ==
    /\ Len(pattern) = Len(path)
    /\ \A i \in 1..Len(pattern) : pattern[i] = "*" \/ pattern[i] = path[i]

\* glob.sync(pattern, {dot: true, nodir: true}) on the files of disk: the
\* regular files matching the pattern, sorted
globSync(pattern, disk) ==
    LET hit(p) == p \in disk /\ matches(pattern.v, p)
        found == SelectSeq(SortedPaths, hit)
    IN  [i \in 1..Len(found) |-> Str(found[i])]

-----------------------------------------------------------------------------
(* expandFiles (lines 89-101) *)

\* A variant of the loop of lines 93-98 that keeps only the last pattern's
\* matches, as if the accumulator were not passed to _.union
forEachLast(list, base, disk) ==
    IF list = << >> THEN << >>
    ELSE globSync(pathJoin(base, list[Len(list)]), disk)

RECURSIVE forEachUnion(_, _, _)
\* The _.forEach loop of lines 93-98 over the list `list`
forEachUnion(list, base, disk) ==
    IF list = << >> THEN << >>
    ELSE union(forEachUnion(SubSeq(list, 1, Len(list) - 1), base, disk),
               globSync(pathJoin(base, list[Len(list)]), disk))

expandFiles(fileNames, base, disk) ==
    LET list == IF Truthy(fileNames)
                THEN (IF IsArray(fileNames) THEN fileNames.v ELSE <<fileNames>>)
                ELSE << >>
    IN  Arr(forEachUnion(list, base, disk))

-----------------------------------------------------------------------------
(* log4js *)

LevelNames == {"ALL", "TRACE", "DEBUG", "INFO", "WARN", "ERROR", "FATAL", "OFF"}

\* log4js.levels: the Level object of every level name
levels == [name \in LevelNames |-> [t |-> "Level", v |-> name]]

\* A variant of line 115 that reads the level of DEFAULT_OPTIONS, not of opts
levelOfDefaults(o) == levels[DefaultOptionsLiteral.logLevel.v[1]]

\* log4js.levels[opts.logLevel] (line 115): undefined for an unknown name
levelOf(o) ==
    LET name == Get(o, "logLevel")
    IN  IF name.t = "string" /\ Len(name.v) = 1 /\ name.v[1] \in LevelNames
        THEN levels[name.v[1]]
        ELSE Undefined


-----------------------------------------------------------------------------
(* The helpers of getOptions *)

\* areRequiredOptionsSet (lines 60-68): the error message, or null
areRequiredOptionsSet(o) ==
    IF "code" \notin DOMAIN o THEN Str(<<"Options has no own code property">>)
    ELSE IF "specs" \notin DOMAIN o THEN Str(<<"Options has no own specs property">>)
    ELSE IF "mutate" \notin DOMAIN o THEN Str(<<"Options has no own mutate property">>)
    ELSE IF Len(o.code.v) = 0 THEN Str(<<"Code property is empty">>)
    ELSE IF Len(o.specs.v) = 0 THEN Str(<<"Specs property is empty">>)
    ELSE IF Len(o.mutate.v) = 0 THEN Str(<<"Mutate property is empty">>)
    ELSE Null

\* A variant of ensureReportersConfig that merges the caller's reporters
\* into the default instead of testing for the own property
ensureReportersConfigMerging(o) ==
    IF "reporters" \notin DOMAIN o THEN Put(o, "reporters", DEFAULT_REPORTER)
    ELSE Put(o, "reporters", mergeValue(DEFAULT_REPORTER, o.reporters))

\* ensureReportersConfig (lines 70-75)
ensureReportersConfig(o) ==
    IF "reporters" \notin DOMAIN o THEN Put(o, "reporters", DEFAULT_REPORTER) ELSE o

\* [a].concat(val): the elements of an array val, or val itself, appended
concat(a, val) == Arr(a \o (IF IsArray(val) THEN val.v ELSE <<val>>))

\* A variant of ensureIgnoreConfig that appends DEFAULT_IGNORE
ensureIgnoreConfigAppending(o) ==
    IF ~Truthy(Get(o, "discardDefaultIgnore"))
    THEN Put(o, "ignore",
             IF Truthy(Get(o, "ignore"))
             THEN concat(concat(<< >>, o.ignore).v, DEFAULT_IGNORE)
             ELSE DEFAULT_IGNORE)
    ELSE o

\* ensureIgnoreConfig (lines 77-81)
ensureIgnoreConfig(o) ==
    IF ~Truthy(Get(o, "discardDefaultIgnore"))
    THEN Put(o, "ignore",
             IF Truthy(Get(o, "ignore"))
             THEN concat(<<DEFAULT_IGNORE>>, o.ignore)
             ELSE DEFAULT_IGNORE)
    ELSE o

-----------------------------------------------------------------------------
(* getOptions (lines 109-136), step by step *)

\* A variant of line 112 that merges into DEFAULT_OPTIONS itself
mergeDestinationDefaults == "DEFAULT_OPTIONS"

\* The object line 112 merges into: the fresh {} of its first argument
mergeDestination == "fresh"

\* Line 112: _.merge({}, DEFAULT_OPTIONS, globalOpts, localOpts)
mergeOptions(defaults, globalOpts, localOpts) ==
    merge(merge(merge(IF mergeDestination = "fresh" THEN EmptyObject ELSE defaults,
                      defaults),
                globalOpts),
          localOpts)

\* Lines 118-120: code, specs and mutate replaced by their expansions
expandRequired(o, disk) ==
    LET c == Put(o, "code", expandFiles(Get(o, "code"), o.basePath, disk))
        s == Put(c, "specs", expandFiles(Get(c, "specs"), c.basePath, disk))
    IN  Put(s, "mutate", expandFiles(Get(s, "mutate"), s.basePath, disk))

\* A variant of lines 122-124 that expands only a present karma.notIncluded
expandKarmaIfNotIncluded(o, disk) ==
    IF Truthy(Get(o, "karma")) /\ Truthy(Get(o.karma.v, "notIncluded"))
    THEN Put(o, "karma",
             Obj(Put(o.karma.v, "notIncluded",
                     expandFiles(Get(o.karma.v, "notIncluded"), o.basePath, disk))))
    ELSE o

\* Lines 122-124: karma.notIncluded replaced by its expansion
expandKarma(o, disk) ==
    IF Truthy(Get(o, "karma"))
    THEN Put(o, "karma",
             Obj(Put(o.karma.v, "notIncluded",
                     expandFiles(Get(o.karma.v, "notIncluded"), o.basePath, disk))))
    ELSE o

\* 'Not all required options have been set properly. ' + requiredOptionsSetErr
warning(err) ==
    Str(<<"Not all required options have been set properly. " \o err.v[1]>>)

\* A variant of lines 126-135 without the `return null` of line 129
validateAndReturnNoReturn(o) ==
    LET requiredOptionsSetErr == areRequiredOptionsSet(o)
    IN  [warned |-> IF requiredOptionsSetErr # Null
                    THEN <<warning(requiredOptionsSetErr)>>
                    ELSE << >>,
         value |-> Obj(ensureIgnoreConfig(ensureReportersConfig(o)))]

\* Lines 126-135: the grunt.warn calls made and the value returned
validateAndReturn(o) ==
    LET requiredOptionsSetErr == areRequiredOptionsSet(o)
    IN  IF requiredOptionsSetErr # Null
        THEN [warned |-> <<warning(requiredOptionsSetErr)>>, value |-> Null]
        ELSE [warned |-> << >>,
              value |-> Obj(ensureIgnoreConfig(ensureReportersConfig(o)))]

Targets == {"t1", "t2"}

NoTask == "none"

\* The body of getOptions(grunt, task) for the target `target` of the task
resolve(target) ==
    LET globalOpts == gruntConfig.options
        localOpts == gruntConfig.targets[target]
        m == mergeOptions(DEFAULT_OPTIONS, globalOpts, localOpts)
        e == expandKarma(expandRequired(m, fs), fs)
        out == validateAndReturn(e)
    IN  /\ task' = target
        /\ merged' = m
        /\ globalLogLevel' = levelOf(m)
        /\ logConfig' = LOG_OPTIONS
        /\ opts' = e
        /\ warnings' = out.warned
        /\ result' = out.value
        /\ DEFAULT_OPTIONS' = IF mergeDestination = "fresh"
                              THEN DEFAULT_OPTIONS
                              ELSE IF out.value = Null THEN e ELSE out.value.v
        /\ UNCHANGED <<fs, gruntConfig, files, basePath, expandedFiles>>

\* getOptions(grunt, task)
getOptions(target) == resolve(target) /\ UNCHANGED calls

-----------------------------------------------------------------------------
(* The configurations and disks a run starts from *)

\* An options layer: the properties given a value (a property whose value is
\* undefined is one _.merge skips, as if it were not there)
Layer(o) == [k \in {x \in DOMAIN o : o[x] # Undefined} |-> o[k]]

CodeValues ==
    {Arr(<<Str(<<"a", "x.js">>), Str(<<"a", "*">>)>>),
     Arr(<<Str(<<"nomatch", "*">>)>>)}

SpecsValues == {Str(<<"t", "s.js">>)}

MutateValues == {Arr(<<Str(<<"a", "y.js">>)>>)}

BasePathValues == {Str(<<"fx">>)}

KarmaValues ==
    {Obj(EmptyObject),
     Obj([configFile |-> Str(<<"karma.conf.js">>)]),
     Obj([notIncluded |-> Str(<<"a", "*">>)])}

ReportersValues == {Obj(EmptyObject), Obj([html |-> Bool(TRUE)])}

IgnoreValues ==
    {Str(<< >>), Str(<<"foo">>), Arr(<<Str(<<"foo">>), Str(<<"bar">>)>>),
     Arr(<< >>)}

DiscardDefaultIgnoreValues == {Bool(TRUE), Bool(FALSE)}

LogLevelValues == {Str(<<"DEBUG">>), Str(<<"OFF">>)}

Optional(values) == values \cup {Undefined}

\* Layers that set any of the file options
FileLayers ==
    {Layer([code |-> c, specs |-> s, mutate |-> m, basePath |-> b]) :
        c \in Optional(CodeValues), s \in Optional(SpecsValues),
        m \in Optional(MutateValues), b \in Optional(BasePathValues)}

\* Layers that set one of the other options
OptionLayers ==
    {[karma |-> x] : x \in KarmaValues}
    \cup {[reporters |-> x] : x \in ReportersValues}
    \cup {[ignore |-> x] : x \in IgnoreValues}
    \cup {[discardDefaultIgnore |-> x] : x \in DiscardDefaultIgnoreValues}
    \cup {[logLevel |-> x] : x \in LogLevelValues}

\* A layer whose three required options all match files of AllPaths
ValidFiles ==
    [code |-> Arr(<<Str(<<"a", "x.js">>), Str(<<"a", "*">>)>>),
     specs |-> Str(<<"t", "s.js">>),
     mutate |-> Arr(<<Str(<<"a", "y.js">>)>>)]

\* The options of the task and of its first target
Layers ==
    FileLayers \cup OptionLayers \cup {merge(ValidFiles, o) : o \in OptionLayers}

\* The options of the task's second target
SecondLayers == {EmptyObject, [logLevel |-> Str(<<"OFF">>)]}

TargetLayers(target) == IF target = "t1" THEN Layers ELSE SecondLayers

GruntConfigs ==
    {[options |-> g, targets |-> [t \in Targets |-> IF t = "t1" THEN l ELSE l2]] :
        g \in Layers, l \in TargetLayers("t1"), l2 \in TargetLayers("t2")}

FileSystems ==
    {AllPaths,
     {<<"a", "x.js">>, <<"a", "y.js">>, <<"t", "s.js">>},
     {<<"a", "x.js">>, <<"fx", "a", "x.js">>, <<"fx", "t", "s.js">>}}

-----------------------------------------------------------------------------
(* Option resolution: the module is loaded, then getOptions is called for the
   targets of the task, in any order and any number of times *)

Loaded ==
    /\ DEFAULT_OPTIONS = DefaultOptionsLiteral
    /\ globalLogLevel = Undefined
    /\ logConfig = "default"
    /\ task = NoTask
    /\ merged = EmptyObject
    /\ opts = EmptyObject
    /\ result = Undefined
    /\ warnings = << >>
    /\ calls = << >>
    /\ expandedFiles = Undefined

Init ==
    /\ fs \in FileSystems
    /\ gruntConfig \in GruntConfigs
    /\ files = Undefined
    /\ basePath = Undefined
    /\ Loaded

Next == \E target \in Targets : getOptions(target)

Spec == Init /\ [][Next]_vars

-----------------------------------------------------------------------------
(* Repeated resolution: a few configurations, and a log of the calls made *)

MaxCalls == 3

RepeatLayers ==
    {EmptyObject,
     ValidFiles,
     [code |-> Arr(<<Str(<<"nomatch", "*">>)>>), logLevel |-> Str(<<"DEBUG">>)],
     [specs |-> Str(<<"t", "s.js">>), mutate |-> Arr(<<Str(<<"a", "y.js">>)>>),
      karma |-> Obj([notIncluded |-> Str(<<"a", "*">>)])],
     [code |-> Str(<<"a", "*">>), ignore |-> Str(<<"foo">>)],
     [basePath |-> Str(<<"fx">>), reporters |-> Obj([html |-> Bool(TRUE)]),
      logLevel |-> Str(<<"OFF">>)]}

InitRepeat ==
    /\ fs \in FileSystems
    /\ gruntConfig \in [options : RepeatLayers, targets : [Targets -> RepeatLayers]]
    /\ files = Undefined
    /\ basePath = Undefined
    /\ Loaded

\* getOptions(grunt, task), with the call and its value appended to the log
getOptionsLogged(target) ==
    /\ Len(calls) < MaxCalls
    /\ resolve(target)
    /\ calls' = Append(calls, [target |-> target, value |-> result'])

NextRepeat == \E target \in Targets : getOptionsLogged(target)

SpecRepeat == InitRepeat /\ [][NextRepeat]_vars

-----------------------------------------------------------------------------
(* expandFiles alone: called once on arguments drawn from bounded sets *)

MaxPatterns == 2

Patterns ==
    {<<"a", "*">>, <<"a", "x.js">>, <<".", "a", "x.js">>, <<"*", "s.js">>,
     <<"nomatch", "*">>}

RECURSIVE PatternLists(_)
\* the lists of at most n patterns
PatternLists(n) ==
    IF n = 0 THEN {<< >>}
    ELSE LET shorter == PatternLists(n - 1)
         IN  shorter \cup {Append(l, Str(p)) : l \in shorter, p \in Patterns}

FilesArguments ==
    {Undefined, Str(<< >>)}
    \cup {Str(p) : p \in Patterns}
    \cup {Arr(l) : l \in PatternLists(MaxPatterns)}

BasePathArguments == {Str(<<".">>), Str(<<"fx">>)}

InitExpand ==
    /\ fs \in SUBSET AllPaths
    /\ gruntConfig = [options |-> EmptyObject,
                      targets |-> [t \in Targets |-> EmptyObject]]
    /\ files \in FilesArguments
    /\ basePath \in BasePathArguments
    /\ Loaded

expandFilesCall ==
    /\ expandedFiles = Undefined
    /\ expandedFiles' = expandFiles(files, basePath, fs)
    /\ UNCHANGED <<fs, gruntConfig, DEFAULT_OPTIONS, globalLogLevel, logConfig,
                   task, merged, opts, result, warnings, calls, files,
                   basePath>>

NextExpand == expandFilesCall

SpecExpand == InitExpand /\ [][NextExpand]_vars

-----------------------------------------------------------------------------
(* Properties of option resolution *)

Called == task # NoTask

\* The two layers the most recent call read from grunt's configuration
GlobalLayer == gruntConfig.options

LocalLayer == gruntConfig.targets[task]

Required == {"code", "specs", "mutate"}

\* The expansion of a field of the merged options, against the merged basePath
Expansion(field) == expandFiles(Get(merged, field), merged.basePath, fs)

RECURSIVE Override(_, _)
\* upper laid over lower: mapping over mapping field by field, anything else
\* (a list included) replacing the lower value whole
Override(lower, upper) ==
    IF IsPlainObject(lower) /\ IsPlainObject(upper)
    THEN Obj([k \in DOMAIN lower.v \cup DOMAIN upper.v |->
                IF k \notin DOMAIN upper.v THEN lower.v[k]
                ELSE IF k \notin DOMAIN lower.v THEN upper.v[k]
                ELSE Override(lower.v[k], upper.v[k])])
    ELSE upper

\* C1: every field of the merged options (fields of nested mappings and
\* list-valued fields included) is the local layer's value if it has one, else
\* the global layer's, else the default; a local value is never mixed with
\* parts of the global value of the same field.
C1_LocalOverGlobalOverDefault ==
    Called =>
        Obj(merged) = Override(Override(Obj(DefaultOptionsLiteral), Obj(GlobalLayer)),
                               Obj(LocalLayer))

\* A non-empty list of paths of files on disk, none of them twice
IsPathList(val) ==
    /\ IsArray(val)
    /\ Len(val.v) > 0
    /\ \A i \in 1..Len(val.v) : val.v[i].t = "string" /\ val.v[i].v \in fs
    /\ \A i, j \in 1..Len(val.v) : val.v[i] = val.v[j] => i = j

\* C2 as stated: the result is non-null iff code, specs and mutate all expand
\* to something; in a non-null result each of the three is a non-empty
\* duplicate-free list of file paths and none is the original pattern value.
C2_ExpandedNeverOriginal ==
    Called =>
        /\ result # Null <=> \A f \in Required : Len(Expansion(f).v) > 0
        /\ result # Null =>
              \A f \in Required :
                  IsPathList(result.v[f]) /\ result.v[f] # Get(merged, f)

\* C2, amended: the result is non-null iff code, specs and mutate all expand
\* to something; in a non-null result each of the three is a non-empty
\* duplicate-free list of paths of files on disk, namely the expansion of the
\* merged pattern value (which it may equal, when that value already is a list
\* of literal paths of files on disk).
C2_RequiredFieldsExpanded ==
    Called =>
        /\ result # Null <=> \A f \in Required : Len(Expansion(f).v) > 0
        /\ result # Null =>
              \A f \in Required :
                  IsPathList(result.v[f]) /\ result.v[f] = Expansion(f)

\* C2's case: a single result whose code came from two overlapping patterns
C2_Witness ==
    /\ Called
    /\ result # Null
    /\ Get(merged, "code") = Arr(<<Str(<<"a", "x.js">>), Str(<<"a", "*">>)>>)
    /\ Len(result.v.code.v) = 3
    /\ Get(merged, "specs") = Str(<<"t", "s.js">>)
    /\ result.v.specs = Arr(<<Str(<<"t", "s.js">>)>>)

\* C3: grunt.warn is called exactly once when validation of the required
\* fields fails, and the call then returns null; it is never called when
\* validation succeeds; no call warns more than once.
C3_WarnExactlyOnceOnFailure ==
    Called =>
        /\ Len(warnings) <= 1
        /\ Len(warnings) = 1 <=> \E f \in Required : Len(Expansion(f).v) = 0
        /\ Len(warnings) = 1 => result = Null
        /\ Len(warnings) = 0 => result # Null /\ result # Undefined

\* C3's case: a call that failed validation
C3_Witness ==
    /\ Called
    /\ Len(warnings) = 1
    /\ result = Null
    /\ \A f \in Required : f \in DOMAIN merged
    /\ Len(Expansion("mutate").v) = 0
    /\ Len(Expansion("code").v) > 0
    /\ Len(Expansion("specs").v) > 0

\* The message the ordered checks of C4 ask for
C4_ExpectedError ==
    IF "code" \notin DOMAIN merged THEN "Options has no own code property"
    ELSE IF "specs" \notin DOMAIN merged THEN "Options has no own specs property"
    ELSE IF "mutate" \notin DOMAIN merged THEN "Options has no own mutate property"
    ELSE IF Len(Expansion("code").v) = 0 THEN "Code property is empty"
    ELSE IF Len(Expansion("specs").v) = 0 THEN "Specs property is empty"
    ELSE "Mutate property is empty"

\* C4: when validation fails, the warning is the one of the first failing
\* check in the order: code absent from the merged options, specs absent,
\* mutate absent, code empty, specs empty, mutate empty; an absent field is
\* reported as "has no own <field> property", not as empty.
C4_FirstFailingCheckReported ==
    (Called /\ result = Null) =>
        warnings = <<Str(<<"Not all required options have been set properly. "
                           \o C4_ExpectedError>>)>>

\* C5: in every non-null result reporters is present: it is {console: true}
\* when the merged options have no reporters field, and otherwise the supplied
\* value unchanged (an empty mapping too; the default is not merged into it).
C5_ReportersDefaultOnlyWhenAbsent ==
    (Called /\ result # Null) =>
        /\ "reporters" \in DOMAIN result.v
        /\ result.v.reporters = IF "reporters" \in DOMAIN merged
                                THEN merged.reporters
                                ELSE Obj([console |-> Bool(TRUE)])

\* C5's case: a supplied empty mapping suppresses the default
C5_Witness ==
    /\ Called
    /\ result # Null
    /\ "reporters" \in DOMAIN merged
    /\ result.v.reporters = Obj(EmptyObject)

\* The patterns of a supplied ignore value: a list's elements, or the one value
IgnoreList(val) == IF IsArray(val) THEN val.v ELSE <<val>>

\* Whether the options hold an ignore value other than the empty string
HasIgnore(o) == "ignore" \in DOMAIN o /\ o.ignore # Str(<< >>)

\* C6 as stated: in every non-null result ignore is absent only if
\* discardDefaultIgnore is truthy, and whenever present it has the built-in
\* pattern before every supplied pattern: the built-in alone (not in a list)
\* with no supplied ignore, [built-in, ...supplied] with a supplied one
\* (an empty string is taken here as no pattern at all).
C6_IgnoreAlwaysHasBuiltIn ==
    (Called /\ result # Null) =>
        /\ ~HasIgnore(result.v) => Truthy(Get(merged, "discardDefaultIgnore"))
        /\ HasIgnore(result.v) =>
              result.v.ignore =
                  IF ~HasIgnore(merged)
                  THEN DEFAULT_IGNORE
                  ELSE Arr(<<DEFAULT_IGNORE>> \o IgnoreList(merged.ignore))

\* C6, amended: in every non-null result ignore is absent only if
\* discardDefaultIgnore is truthy. When discardDefaultIgnore is not truthy,
\* ignore is present and has the built-in pattern before every supplied one:
\* the built-in alone (not in a list) when no ignore is supplied or the supplied
\* one is the empty string, [built-in, ...supplied] otherwise. When
\* discardDefaultIgnore is truthy, ignore is left as supplied, without the
\* built-in pattern (absent when none is supplied).
C6_IgnoreHasBuiltInUnlessDiscarded ==
    (Called /\ result # Null) =>
        /\ "ignore" \notin DOMAIN result.v => Truthy(Get(merged, "discardDefaultIgnore"))
        /\ ~Truthy(Get(merged, "discardDefaultIgnore")) =>
              /\ "ignore" \in DOMAIN result.v
              /\ result.v.ignore =
                    IF "ignore" \notin DOMAIN merged \/ Get(merged, "ignore") = Str(<< >>)
                    THEN DEFAULT_IGNORE
                    ELSE Arr(<<DEFAULT_IGNORE>> \o IgnoreList(merged.ignore))
        /\ Truthy(Get(merged, "discardDefaultIgnore")) =>
              Get(result.v, "ignore") = Get(merged, "ignore")

\* C6's case: two supplied patterns, the built-in one put before them
C6_Witness ==
    /\ Called
    /\ result # Null
    /\ ~Truthy(Get(merged, "discardDefaultIgnore"))
    /\ Get(merged, "ignore") = Arr(<<Str(<<"foo">>), Str(<<"bar">>)>>)
    /\ result.v.ignore = Arr(<<DEFAULT_IGNORE, Str(<<"foo">>), Str(<<"bar">>)>>)

\* C10 as stated: karma.notIncluded is expanded against basePath exactly when
\* the merged options have a karma.notIncluded field; with a karma mapping
\* without notIncluded, or without karma, the result's karma.notIncluded stays
\* unset.
C10_NotIncludedUnsetUnlessSupplied ==
    (Called /\ result # Null) =>
        IF "karma" \in DOMAIN merged /\ "notIncluded" \in DOMAIN merged.karma.v
        THEN result.v.karma.v.notIncluded =
                 expandFiles(merged.karma.v.notIncluded, merged.basePath, fs)
        ELSE \/ "karma" \notin DOMAIN result.v
             \/ "notIncluded" \notin DOMAIN result.v.karma.v

\* C10, amended: karma.notIncluded is expanded against basePath, in the same
\* way as code/specs/mutate, exactly when the merged options have a karma
\* mapping: a supplied karma.notIncluded is replaced by its expansion, a karma
\* mapping without notIncluded gets notIncluded set to the empty list, and its
\* other fields are kept; without a karma mapping the result has no karma.
C10_NotIncludedExpandedWheneverKarma ==
    (Called /\ result # Null) =>
        IF "karma" \in DOMAIN merged
        THEN /\ "karma" \in DOMAIN result.v
             /\ DOMAIN result.v.karma.v = DOMAIN merged.karma.v \cup {"notIncluded"}
             /\ \A k \in DOMAIN merged.karma.v \ {"notIncluded"} :
                    result.v.karma.v[k] = merged.karma.v[k]
             /\ result.v.karma.v.notIncluded =
                    IF "notIncluded" \in DOMAIN merged.karma.v
                    THEN expandFiles(merged.karma.v.notIncluded, merged.basePath, fs)
                    ELSE Arr(<< >>)
        ELSE "karma" \notin DOMAIN result.v

\* C10's case: a karma mapping without notIncluded
C10_Witness ==
    /\ Called
    /\ result # Null
    /\ "karma" \in DOMAIN merged
    /\ "configFile" \in DOMAIN merged.karma.v
    /\ "notIncluded" \notin DOMAIN merged.karma.v
    /\ result.v.karma.v.notIncluded = Arr(<< >>)

-----------------------------------------------------------------------------
(* Properties of repeated resolution *)

\* C7: two getOptions calls for the same layers on the same disk return equal
\* values, whatever calls were made in between; fs, grunt's configuration and
\* DEFAULT_OPTIONS are as they were before the calls, only the logger differs.
C7_SameLayersSameResult ==
    /\ \A i, j \in 1..Len(calls) :
           calls[i].target = calls[j].target => calls[i].value = calls[j].value
    /\ DEFAULT_OPTIONS = DefaultOptionsLiteral

\* C7's case: a target resolved, then the other one with another outcome,
\* then the first one again
C7_Witness ==
    /\ Len(calls) = 3
    /\ calls[1].target = calls[3].target
    /\ calls[2].target # calls[1].target
    /\ calls[1].value = Null
    /\ calls[2].value # Null
    /\ globalLogLevel # levels["INFO"]

\* The name of the level a call for the target asks for: the local layer's
\* logLevel, else the global layer's, else INFO
LogLevelName(target) ==
    LET localOpts == gruntConfig.targets[target]
    IN  IF "logLevel" \in DOMAIN localOpts THEN localOpts.logLevel.v[1]
        ELSE IF "logLevel" \in DOMAIN GlobalLayer THEN GlobalLayer.logLevel.v[1]
        ELSE "INFO"

\* C9: after any sequence of getOptions calls the logger's minimum level is
\* the one named by the merged logLevel of the most recent call (INFO when no
\* layer sets it), also when that call failed validation and returned null.
C9_LoggerFollowsLastCall ==
    Called =>
        /\ globalLogLevel.t = "Level"
        /\ globalLogLevel.v = LogLevelName(task)
        /\ logConfig = LOG_OPTIONS

\* C9's case: a call that set one level, followed by a failed call that
\* names another one
C9_Witness ==
    /\ Len(calls) = 2
    /\ calls[1].value # Null
    /\ calls[2].value = Null
    /\ LogLevelName(calls[1].target) = "INFO"
    /\ LogLevelName(calls[2].target) = "OFF"
    /\ globalLogLevel = levels["OFF"]

-----------------------------------------------------------------------------
(* Properties of expandFiles *)

\* The list of patterns expandFiles was given: none when files is absent (or
\* the empty string), the one pattern when it is a single one
GivenPatterns ==
    IF files = Undefined \/ files = Str(<< >>) THEN << >>
    ELSE IF files.t = "array" THEN files.v
    ELSE <<files>>

\* The files on disk the i-th given pattern matches, under basePath
MatchesOf(i) ==
    {p \in fs : matches(pathJoin(basePath, GivenPatterns[i]).v, p)}

\* The first given pattern that matches the path
FirstMatch(p) ==
    CHOOSE i \in 1..Len(GivenPatterns) :
        p \in MatchesOf(i) /\ \A j \in 1..(i - 1) : p \notin MatchesOf(j)

\* The position of a path in glob's order
Rank(p) == CHOOSE i \in 1..Len(SortedPaths) : SortedPaths[i] = p

\* C8: expandFiles returns the empty list when patterns is absent, treats a
\* single pattern as a one-element list, and otherwise returns the ordered
\* union of the patterns' matches: every matched path exactly once, at the
\* position of its first discovery, and no path that no pattern matches.
C8_OrderedUnionOfMatches ==
    expandedFiles # Undefined =>
        LET r == expandedFiles.v
        IN  /\ expandedFiles.t = "array"
            /\ {r[i].v : i \in 1..Len(r)} =
                   UNION {MatchesOf(i) : i \in 1..Len(GivenPatterns)}
            /\ \A i, j \in 1..Len(r) : r[i] = r[j] => i = j
            /\ \A i, j \in 1..Len(r) :
                   i < j =>
                       \/ FirstMatch(r[i].v) < FirstMatch(r[j].v)
                       \/ /\ FirstMatch(r[i].v) = FirstMatch(r[j].v)
                          /\ Rank(r[i].v) < Rank(r[j].v)
            /\ files = Undefined => r = << >>

\* C8's case: two patterns that match a common file, and one more each
C8_Witness ==
    /\ expandedFiles # Undefined
    /\ files = Arr(<<Str(<<"a", "x.js">>), Str(<<"a", "*">>)>>)
    /\ basePath = Str(<<".">>)
    /\ expandedFiles =
           Arr(<<Str(<<"a", "x.js">>), Str(<<"a", ".h.js">>), Str(<<"a", "y.js">>)>>)

====
